---- MODULE Spec2Model ----
(***************************************************************************)
(* cfgloader (src/src/lib.rs): load / load_or_default over a per-user      *)
(* configuration directory.  The filesystem under the configuration root   *)
(* is the state; a call is a linear sequence of filesystem steps.          *)
(*                                                                         *)
(* Spec      : one caller, every call runs from probe to return.           *)
(* SpecConc  : several callers, interleaved at the filesystem steps.       *)
(***************************************************************************)
EXTENDS Naturals, Sequences, FiniteSets

\* ------------------------------------------------------------------ bounds
\* Largest number of fields of a configuration value.
MaxLen == 2

\* ------------------------------------------------------------- value space
Namespaces == {"app", "sys"}
Names == {"cfg"}
Exts == <<"toml", "json", "yml">>
ExtSet == {"toml", "json", "yml"}
Paths == Namespaces \X Names \X ExtSet

\* A field holds a scalar "a", or a value TOML cannot express ("unit":
\* JSON writes it null, YAML writes it ~).
Items == {"a", "unit"}
\* Configuration values: up to MaxLen fields.  Serialization stops at the
\* first field TOML cannot express, so such a field is modelled in last
\* position only.
Values ==
    {v \in UNION {[1..n -> Items] : n \in 0..MaxLen} :
        \A i \in 1..(Len(v) - 1) : v[i] = "a"}

\* A file: absent, present but not openable by this user, or present with
\* its content (a sequence of tokens).
Absent == [st |-> "absent", data |-> <<>>]
Unreadable == [st |-> "locked", data |-> <<>>]
File(c) == [st |-> "file", data |-> c]

\* ------------------------------------------------- polyglot (de)serializers
\* TOML has no representation of a unit value.
Representable(v) == \A i \in 1..Len(v) : v[i] # "unit"

\* The longest prefix of v that the TOML serializer can emit.
RECURSIVE GoodPrefix(_)
GoodPrefix(v) ==
    IF v = <<>> \/ Head(v) = "unit" THEN <<>>
    ELSE <<Head(v)>> \o GoodPrefix(Tail(v))

\* TOML text of a representable value: one `k=` `scalar` pair per field.
RECURSIVE ToToml(_)
ToToml(v) ==
    IF v = <<>> THEN <<>>
    ELSE <<"k=", Head(v)>> \o ToToml(Tail(v))

JsonAtom(x) == IF x = "unit" THEN "null" ELSE x
YamlAtom(x) == IF x = "unit" THEN "~" ELSE x
ToJson(v) == <<"[">> \o [i \in 1..Len(v) |-> JsonAtom(v[i])] \o <<"]">>
ToYaml(v) == <<"---">> \o [i \in 1..Len(v) |-> YamlAtom(v[i])]

Ok(v) == [ok |-> TRUE, val |-> v, err |-> ""]
Err(e) == [ok |-> FALSE, val |-> <<>>, err |-> e]

ParseToml(c) ==
    IF /\ Len(c) % 2 = 0
       /\ \A i \in 1..Len(c) :
             IF i % 2 = 1 THEN c[i] = "k=" ELSE c[i] = "a"
    THEN Ok([i \in 1..(Len(c) \div 2) |-> c[2 * i]])
    ELSE Err("FailedToDeserializeConfigFile")

ParseJson(c) ==
    IF /\ Len(c) >= 2
       /\ c[1] = "["
       /\ c[Len(c)] = "]"
       /\ \A i \in 2..(Len(c) - 1) : c[i] \in {"a", "null"}
    THEN Ok([i \in 1..(Len(c) - 2) |->
                IF c[i + 1] = "null" THEN "unit" ELSE c[i + 1]])
    ELSE Err("FailedToDeserializeConfigFile")

ParseYaml(c) ==
    IF /\ Len(c) >= 1
       /\ c[1] = "---"
       /\ \A i \in 2..Len(c) : c[i] \in {"a", "~"}
    THEN Ok([i \in 1..(Len(c) - 1) |->
                IF c[i + 1] = "~" THEN "unit" ELSE c[i + 1]])
    ELSE Err("FailedToDeserializeConfigFile")

\* Mutant: the TOML and JSON tags dispatch to each other's parser.
from_reader_swapped(c, format) ==
    CASE format = "TOML" -> ParseJson(c)
      [] format = "JSON" -> ParseToml(c)
      [] format = "YAML" -> ParseYaml(c)

\* polyglot::from_reader(f, format)
from_reader(c, format) ==
    CASE format = "TOML" -> ParseToml(c)
      [] format = "JSON" -> ParseJson(c)
      [] format = "YAML" -> ParseYaml(c)

\* ------------------------------------------------------------------- state
VARIABLES
    rootKnown,  \* dirs::config_dir() is Some(root)
    writable,   \* the tree under the root accepts new entries and writes
    dirs,       \* the namespace directories that exist under the root
    files,      \* Paths -> file
    last,       \* Spec: the call that returned most recently
    prev,       \* Spec: the call before `last`, kept when it was a
                \* load_or_default whose probe found no file
    procs       \* SpecConc: each caller's position in its call

vars == <<rootKnown, writable, dirs, files, last, prev, procs>>

Procs == {"p1", "p2"}

NoCall ==
    [op |-> "none", ns |-> "", name |-> "", dflt |-> <<>>, probe |-> "",
     res |-> Err(""), touched |-> FALSE]

Idle ==
    [pc |-> "idle", op |-> "none", ns |-> "", name |-> "", dflt |-> <<>>,
     probe |-> "", off |-> 0, res |-> Err("")]

FormatOf(ext) ==
    CASE ext = "toml" -> "TOML"
      [] ext = "json" -> "JSON"
      [] ext = "yml" -> "YAML"

\* Path::exists()
exists(fl, ns, name, ext) == fl[<<ns, name, ext>>].st # "absent"

\* ----------------------------------------------------------- lib.rs steps
\* Mutant: the probe tries json before toml.
find_config_file_json_first(fl, ns, name) ==
    IF ~rootKnown THEN "err"
    ELSE IF exists(fl, ns, name, "json") THEN "json"
    ELSE IF exists(fl, ns, name, "toml") THEN "toml"
    ELSE IF exists(fl, ns, name, "yml") THEN "yml"
    ELSE "none"

\* find_config_file: "err" (no configuration root), "none", or the
\* extension of the first candidate that exists.
find_config_file(fl, ns, name) ==
    IF ~rootKnown THEN "err"
    ELSE IF exists(fl, ns, name, "toml") THEN "toml"
    ELSE IF exists(fl, ns, name, "json") THEN "json"
    ELSE IF exists(fl, ns, name, "yml") THEN "yml"
    ELSE "none"

\* deser: open the file, then parse it in the given format.
deser(fl, ns, name, ext) ==
    IF fl[<<ns, name, ext>>].st # "file"
    THEN Err("FailedToOpenConfigFile")
    ELSE from_reader(fl[<<ns, name, ext>>].data, FormatOf(ext))

\* Mutant: load opens name.toml without looking at the probe's answer.
load_unprobed(fl, ns, name) ==
    IF ~rootKnown THEN Err("UnknownConfigDirectory")
    ELSE deser(fl, ns, name, "toml")

load(fl, ns, name) ==
    LET found == find_config_file(fl, ns, name) IN
    IF found = "err" THEN Err("UnknownConfigDirectory")
    ELSE IF found = "none" THEN Err("FailedToFindConfigFile")
    ELSE deser(fl, ns, name, found)

\* fs::create_dir_all(namespace_dir): succeeds on a directory that exists.
create_dir_all(d, ns) ==
    IF ns \in d THEN [ok |-> TRUE, dirs |-> d]
    ELSE IF writable THEN [ok |-> TRUE, dirs |-> d \cup {ns}]
    ELSE [ok |-> FALSE, dirs |-> d]

\* Mutant: OpenOptions::create_new, which refuses a file that exists.
file_create_new(fl, p) ==
    IF ~writable \/ fl[p].st # "absent"
    THEN [ok |-> FALSE, files |-> fl]
    ELSE [ok |-> TRUE, files |-> [fl EXCEPT ![p] = File(<<>>)]]

\* Mutant: the handle is a temporary file, not yet linked at the path.
file_create_hidden(fl, p) ==
    IF ~writable \/ fl[p].st = "locked"
    THEN [ok |-> FALSE, files |-> fl]
    ELSE [ok |-> TRUE, files |-> fl]

\* fs::File::create(path): creates the file, or truncates the one there.
file_create(fl, p) ==
    IF ~writable \/ fl[p].st = "locked"
    THEN [ok |-> FALSE, files |-> fl]
    ELSE [ok |-> TRUE, files |-> [fl EXCEPT ![p] = File(<<>>)]]

\* Mutant: the default is written with the JSON tag.
to_writer_json(v) == {[ok |-> TRUE, data |-> ToJson(v)]}

\* polyglot::to_writer(f, &default, TOML): what reaches the file, and
\* whether serialization succeeded.  A value TOML cannot express fails
\* after any part of what precedes the offending field was written.
to_writer(v) ==
    IF Representable(v)
    THEN {[ok |-> TRUE, data |-> ToToml(v)]}
    ELSE {[ok |-> FALSE, data |-> SubSeq(ToToml(GoodPrefix(v)), 1, k)] :
            k \in 0..Len(ToToml(GoodPrefix(v)))}

\* Mutant: a failed serialization removes the file it created.
write_default_cleanup(d, fl, ns, name, v) ==
    LET mk == create_dir_all(d, ns)
        p == <<ns, name, "toml">>
        cr == file_create(fl, p)
    IN  IF ~rootKnown
        THEN {[res |-> Err("UnknownConfigDirectory"), dirs |-> d, files |-> fl]}
        ELSE IF ~mk.ok
        THEN {[res |-> Err("FailedToCreateConfigDir"), dirs |-> d, files |-> fl]}
        ELSE IF ~cr.ok
        THEN {[res |-> Err("FailedToCreateDefaultConfigFile"),
               dirs |-> mk.dirs, files |-> fl]}
        ELSE {[res |-> IF w.ok THEN Ok(v)
                       ELSE Err("FailedToSerializeDefaultConfig"),
               dirs |-> mk.dirs,
               files |-> IF w.ok
                         THEN [cr.files EXCEPT ![p] = File(w.data)]
                         ELSE [cr.files EXCEPT ![p] = Absent]] :
                w \in to_writer(v)}

\* The else-branch of load_or_default (lines 78-87), run to its return.
write_default(d, fl, ns, name, v) ==
    LET mk == create_dir_all(d, ns)
        p == <<ns, name, "toml">>
        cr == file_create(fl, p)
    IN  IF ~rootKnown
        THEN {[res |-> Err("UnknownConfigDirectory"), dirs |-> d, files |-> fl]}
        ELSE IF ~mk.ok
        THEN {[res |-> Err("FailedToCreateConfigDir"), dirs |-> d, files |-> fl]}
        ELSE IF ~cr.ok
        THEN {[res |-> Err("FailedToCreateDefaultConfigFile"),
               dirs |-> mk.dirs, files |-> fl]}
        ELSE {[res |-> IF w.ok THEN Ok(v)
                       ELSE Err("FailedToSerializeDefaultConfig"),
               dirs |-> mk.dirs,
               files |-> [cr.files EXCEPT ![p] = File(w.data)]] :
                w \in to_writer(v)}

\* Mutant: the default is written whatever the probe found.
load_or_default_fresh(d, fl, ns, name, v) ==
    IF find_config_file(fl, ns, name) = "err"
    THEN {[res |-> Err("UnknownConfigDirectory"), dirs |-> d, files |-> fl]}
    ELSE write_default(d, fl, ns, name, v)

\* Mutant: a file that does not deserialize is replaced by the default.
load_or_default_heal(d, fl, ns, name, v) ==
    LET found == find_config_file(fl, ns, name) IN
    IF found = "err"
    THEN {[res |-> Err("UnknownConfigDirectory"), dirs |-> d, files |-> fl]}
    ELSE IF found # "none" /\ deser(fl, ns, name, found).ok
    THEN {[res |-> deser(fl, ns, name, found), dirs |-> d, files |-> fl]}
    ELSE write_default(d, fl, ns, name, v)

\* load_or_default, run to its return: the set of possible outcomes.
load_or_default(d, fl, ns, name, v) ==
    LET found == find_config_file(fl, ns, name) IN
    IF found = "err"
    THEN {[res |-> Err("UnknownConfigDirectory"), dirs |-> d, files |-> fl]}
    ELSE IF found # "none"
    THEN {[res |-> deser(fl, ns, name, found), dirs |-> d, files |-> fl]}
    ELSE write_default(d, fl, ns, name, v)

\* ---------------------------------------------------------- initial states
\* What a configuration file found at start may hold: text of its own
\* format, text no parser accepts, or nothing this user may open.
InitFiles(ext) ==
    {Absent, Unreadable, File(<<"?">>),
     File(CASE ext = "toml" -> ToToml(<<"a">>)
            [] ext = "json" -> ToJson(<<"a">>)
            [] ext = "yml" -> ToYaml(<<"a">>))}

TreeOk(d, fl) == \A p \in Paths : fl[p].st # "absent" => p[1] \in d

\* The state before any call, over the file tree fl.
InitWith(fl) ==
    /\ files = fl
    /\ rootKnown \in BOOLEAN
    /\ writable \in BOOLEAN
    /\ dirs \in SUBSET Namespaces
    /\ TreeOk(dirs, fl)
    /\ ~rootKnown => dirs = {} /\ writable = FALSE /\ fl = [p \in Paths |-> Absent]
    /\ last = NoCall
    /\ prev = NoCall
    /\ procs = [p \in Procs |-> Idle]

\* The namespaces that hold files before the first call; the others are
\* first populated by load_or_default.
Populated == {"app"}

Init ==
    \E t \in [Populated \X Names -> InitFiles("toml")],
       j \in [Populated \X Names -> InitFiles("json")],
       y \in [Populated \X Names -> InitFiles("yml")] :
        InitWith([p \in Paths |->
                    IF p[1] \notin Populated THEN Absent
                    ELSE CASE p[3] = "toml" -> t[<<p[1], p[2]>>]
                           [] p[3] = "json" -> j[<<p[1], p[2]>>]
                           [] p[3] = "yml" -> y[<<p[1], p[2]>>]])

\* ------------------------------------------------- one caller (Spec)
Keep(c) == IF c.op = "lod" /\ c.probe = "none" THEN c ELSE NoCall

Load(ns, name) ==
    /\ last' = [op |-> "load", ns |-> ns, name |-> name, dflt |-> <<>>,
                probe |-> find_config_file(files, ns, name),
                res |-> load(files, ns, name), touched |-> FALSE]
    /\ prev' = Keep(last)
    /\ UNCHANGED <<rootKnown, writable, dirs, files, procs>>

LoadOrDefault(ns, name, v) ==
    \E o \in load_or_default(dirs, files, ns, name, v) :
        /\ dirs' = o.dirs
        /\ files' = o.files
        /\ last' = [op |-> "lod", ns |-> ns, name |-> name, dflt |-> v,
                    probe |-> find_config_file(files, ns, name),
                    res |-> o.res,
                    touched |-> (o.dirs # dirs \/ o.files # files)]
        /\ prev' = Keep(last)
        /\ UNCHANGED <<rootKnown, writable, procs>>

Next ==
    \/ \E ns \in Namespaces, name \in Names : Load(ns, name)
    \/ \E ns \in Namespaces, name \in Names, v \in Values :
            LoadOrDefault(ns, name, v)

Spec == Init /\ [][Next]_vars

\* ------------------------------------------------------ claims under Spec
NoConfig(fl, ns, name) == \A e \in ExtSet : ~exists(fl, ns, name, e)

\* The first extension, in the order toml, json, yml, whose file exists.
FirstExisting(fl, ns, name) ==
    Exts[CHOOSE i \in 1..3 :
            /\ exists(fl, ns, name, Exts[i])
            /\ \A j \in 1..(i - 1) : ~exists(fl, ns, name, Exts[j])]

TomlPath(c) == <<c.ns, c.name, "toml">>
SameTarget(c, d) == c.ns = d.ns /\ c.name = d.name

\* What a call on the default-writing path leaves when it succeeds.
DefaultWritten(c) ==
    /\ dirs' = dirs \cup {c.ns}
    /\ files' = [files EXCEPT ![TomlPath(c)] = File(ToToml(c.dflt))]
    /\ c.res = Ok(c.dflt)

\* C1 as stated: with no name.toml, name.json or name.yml, and the
\* configuration root resolvable and writable, load_or_default(ns, name, D)
\* creates the namespace directory if needed, creates exactly ns/name.toml
\* holding D serialized as TOML, and returns D -- for every D.
C1_AnyDefaultWritten ==
    [][(/\ last'.op = "lod"
        /\ rootKnown /\ writable
        /\ NoConfig(files, last'.ns, last'.name))
       => DefaultWritten(last')]_vars

\* C1 amended: the same, for every D that TOML can represent.
C1_DefaultWritten ==
    [][(/\ last'.op = "lod"
        /\ rootKnown /\ writable
        /\ NoConfig(files, last'.ns, last'.name)
        /\ Representable(last'.dflt))
       => DefaultWritten(last')]_vars

C1_Witness ==
    /\ last.op = "lod" /\ last.probe = "none" /\ last.touched
    /\ last.res = Ok(last.dflt) /\ Len(last.dflt) = MaxLen
    /\ files[TomlPath(last)] = File(ToToml(last.dflt))
    /\ ~exists(files, last.ns, last.name, "json")
    /\ ~exists(files, last.ns, last.name, "yml")

\* C2: extension priority is toml, then json, then yml: load and
\* load_or_default read only the first existing file in that order, with
\* the format of its extension, whatever the other files hold.
C2_ExtensionPriority ==
    [][(/\ last'.op \in {"load", "lod"}
        /\ ~NoConfig(files, last'.ns, last'.name))
       => LET e == FirstExisting(files, last'.ns, last'.name)
              f == files[<<last'.ns, last'.name, e>>]
          IN  /\ last'.probe = e
              /\ last'.res =
                    IF f.st # "file" THEN Err("FailedToOpenConfigFile")
                    ELSE CASE e = "toml" -> ParseToml(f.data)
                           [] e = "json" -> ParseJson(f.data)
                           [] e = "yml" -> ParseYaml(f.data)]_vars

C2_Witness ==
    /\ last.op = "load" /\ last.probe = "toml"
    /\ last.res = Ok(<<"a">>)
    /\ files[<<last.ns, last.name, "json">>] = File(<<"?">>)
    /\ exists(files, last.ns, last.name, "yml")

\* C3: round trip: a successful load_or_default(ns, name, D) that found no
\* file, followed directly by load(ns, name), has load return D.
C3_RoundTrip ==
    (/\ prev.op = "lod" /\ prev.probe = "none" /\ prev.res.ok
     /\ last.op = "load" /\ SameTarget(last, prev))
    => last.res = Ok(prev.dflt)

C3_Witness ==
    /\ prev.op = "lod" /\ prev.probe = "none" /\ prev.res.ok
    /\ last.op = "load" /\ SameTarget(last, prev)
    /\ Len(prev.dflt) = MaxLen
    /\ last.res = Ok(prev.dflt)

\* C4: idempotence: after a load_or_default wrote its default D1, a second
\* load_or_default with any D2 returns D1 and writes nothing.
C4_Idempotent ==
    (/\ prev.op = "lod" /\ prev.probe = "none" /\ prev.res.ok
     /\ last.op = "lod" /\ SameTarget(last, prev))
    => /\ last.res = Ok(prev.dflt)
       /\ last.probe = "toml"
       /\ ~last.touched
       /\ files[TomlPath(last)] = File(ToToml(prev.dflt))

C4_Witness ==
    /\ prev.op = "lod" /\ prev.probe = "none" /\ prev.res.ok
    /\ last.op = "lod" /\ SameTarget(last, prev)
    /\ last.dflt # prev.dflt /\ Representable(last.dflt)
    /\ last.res = Ok(prev.dflt)

\* C5: when the probe finds a file, load_or_default is load: the same value
\* or the same error, and the filesystem is left as it was (a malformed or
\* non-TOML file is never replaced by the default).
C5_FoundIsLoad ==
    [][(/\ last'.op = "lod"
        /\ ~NoConfig(files, last'.ns, last'.name))
       => /\ last'.res = load(files, last'.ns, last'.name)
          /\ files' = files
          /\ dirs' = dirs]_vars

C5_Witness ==
    /\ last.op = "lod" /\ last.probe = "json"
    /\ Representable(last.dflt) /\ last.dflt # <<>>
    /\ last.res = Err("FailedToDeserializeConfigFile")
    /\ files[<<last.ns, last.name, "json">>] = File(<<"?">>)
    /\ ~exists(files, last.ns, last.name, "toml")

\* What load does when there is nothing to find.
NotFound(c) ==
    /\ c.res = Err("FailedToFindConfigFile")
    /\ files' = files
    /\ dirs' = dirs

\* C6 as stated: with no file of any supported extension, load returns
\* FailedToFindConfigFile and creates no directory and no file.
C6_AnyNotFound ==
    [][(/\ last'.op = "load"
        /\ NoConfig(files, last'.ns, last'.name))
       => NotFound(last')]_vars

\* C6 amended: the same, when the configuration root is resolvable.
C6_NotFound ==
    [][(/\ last'.op = "load"
        /\ rootKnown
        /\ NoConfig(files, last'.ns, last'.name))
       => NotFound(last')]_vars

C6_Witness ==
    /\ last.op = "load" /\ last.probe = "none"
    /\ last.res = Err("FailedToFindConfigFile")
    /\ last.ns \notin dirs
    /\ NoConfig(files, last.ns, last.name)

IsPrefix(s, t) == Len(s) <= Len(t) /\ s = SubSeq(t, 1, Len(s))
SerFailed(c) ==
    c.op = "lod" /\ c.res = Err("FailedToSerializeDefaultConfig")

\* What a failed serialization leaves behind, as the last call and as the
\* call before the last one.
LeftBehind ==
    /\ SerFailed(last) =>
          /\ last.probe = "none"
          /\ last.ns \in dirs
          /\ files[TomlPath(last)].st = "file"
          /\ IsPrefix(files[TomlPath(last)].data,
                      ToToml(GoodPrefix(last.dflt)))
    /\ (SerFailed(prev) /\ SameTarget(last, prev)) =>
          /\ last.probe = "toml"
          /\ ~last.touched
          /\ last.res = deser(files, last.ns, last.name, "toml")
          /\ last.res.err # "FailedToFindConfigFile"
          /\ IsPrefix(files[TomlPath(last)].data,
                      ToToml(GoodPrefix(prev.dflt)))

\* C8: no cleanup: when serialization of the default fails after the file
\* was created, the call returns FailedToSerializeDefaultConfig and leaves
\* ns/name.toml (empty or partly written) and the namespace directory; no
\* call removes a file or a directory, so the next load finds name.toml
\* instead of returning FailedToFindConfigFile, and the next
\* load_or_default reads it and writes no default.
C8_NoCleanup ==
    [][/\ LeftBehind'
       /\ dirs \subseteq dirs'
       /\ \A p \in Paths : files[p].st # "absent" => files'[p].st # "absent"
      ]_vars

C8_Witness ==
    /\ SerFailed(prev) /\ SameTarget(last, prev)
    /\ last.op = "lod" /\ Representable(last.dflt)
    /\ files[TomlPath(last)].data # <<>>
    /\ last.res.ok /\ last.res.val # last.dflt

\* --------------------------------------- concurrent callers (SpecConc)
\* Each caller runs the same code; a step is one call into the filesystem.
\* The three exists() tests of find_config_file are one step: only name.toml
\* is ever created here, so a test that finds no name.toml decides the
\* probe.  deser reads the file in one step; to_writer writes it token by
\* token.
\* Every caller makes one call.
\* pc: "idle"   the call has not started
\*     "done"   the call returned res
\*     "found"  the probe returned Some((file, format)): deser is next
\*     "mkdir"  the probe returned None in load_or_default: line 79 is next
\*     "create" the namespace directory is there: File::create is next
\*     "write"  the file is open at offset `off`: to_writer is running

\* The callers start on a tree that holds no configuration file.
InitConc == InitWith([p \in Paths |-> Absent])

Returned(q, r) == [q EXCEPT !.pc = "done", !.res = r]

\* A write of one token through a file handle whose offset is `off`: the
\* file grows, zero-filled, when it was truncated below the offset.
WriteAt(c, off, tok) ==
    IF off < Len(c) THEN [c EXCEPT ![off + 1] = tok]
    ELSE c \o [i \in 1..(off - Len(c)) |-> "NUL"] \o <<tok>>

\* load, lines 65-66.
CLoad(p, ns, name) ==
    LET found == find_config_file(files, ns, name)
        q == [Idle EXCEPT !.op = "load", !.ns = ns, !.name = name,
                          !.probe = found]
    IN  /\ procs[p].pc = "idle"
        /\ procs' = [procs EXCEPT ![p] =
              IF found = "err"
              THEN Returned(q, Err("UnknownConfigDirectory"))
              ELSE IF found = "none"
              THEN Returned(q, Err("FailedToFindConfigFile"))
              ELSE [q EXCEPT !.pc = "found"]]
        /\ UNCHANGED <<rootKnown, writable, dirs, files, last, prev>>

\* load_or_default, line 75.
CLoadOrDefault(p, ns, name, v) ==
    LET found == find_config_file(files, ns, name)
        q == [Idle EXCEPT !.op = "lod", !.ns = ns, !.name = name,
                          !.dflt = v, !.probe = found]
    IN  /\ procs[p].pc = "idle"
        /\ procs' = [procs EXCEPT ![p] =
              IF found = "err"
              THEN Returned(q, Err("UnknownConfigDirectory"))
              ELSE IF found = "none"
              THEN [q EXCEPT !.pc = "mkdir"]
              ELSE [q EXCEPT !.pc = "found"]]
        /\ UNCHANGED <<rootKnown, writable, dirs, files, last, prev>>

\* deser, lines 43-44 (called at line 67 or 76).
CDeser(p) ==
    LET q == procs[p] IN
    /\ q.pc = "found"
    /\ procs' = [procs EXCEPT ![p] =
                    Returned(q, deser(files, q.ns, q.name, q.probe))]
    /\ UNCHANGED <<rootKnown, writable, dirs, files, last, prev>>

\* Lines 79-81.
CMkdir(p) ==
    LET q == procs[p]
        mk == create_dir_all(dirs, q.ns)
    IN  /\ q.pc = "mkdir"
        /\ dirs' = IF rootKnown THEN mk.dirs ELSE dirs
        /\ procs' = [procs EXCEPT ![p] =
              IF ~rootKnown
              THEN Returned(q, Err("UnknownConfigDirectory"))
              ELSE IF ~mk.ok
              THEN Returned(q, Err("FailedToCreateConfigDir"))
              ELSE [q EXCEPT !.pc = "create"]]
        /\ UNCHANGED <<rootKnown, writable, files, last, prev>>

\* Lines 82-84.
CCreate(p) ==
    LET q == procs[p]
        cr == file_create(files, <<q.ns, q.name, "toml">>)
    IN  /\ q.pc = "create"
        /\ files' = cr.files
        /\ procs' = [procs EXCEPT ![p] =
              IF ~cr.ok
              THEN Returned(q, Err("FailedToCreateDefaultConfigFile"))
              ELSE [q EXCEPT !.pc = "write", !.off = 0]]
        /\ UNCHANGED <<rootKnown, writable, dirs, last, prev>>

\* Line 85: the serializer hands the file one more token.
CWrite(p) ==
    LET q == procs[p]
        buf == ToToml(GoodPrefix(q.dflt))
        path == <<q.ns, q.name, "toml">>
    IN  /\ q.pc = "write"
        /\ q.off < Len(buf)
        /\ files' = [files EXCEPT ![path] =
                        File(WriteAt(files[path].data, q.off, buf[q.off + 1]))]
        /\ procs' = [procs EXCEPT ![p] = [q EXCEPT !.off = q.off + 1]]
        /\ UNCHANGED <<rootKnown, writable, dirs, last, prev>>

\* Mutant: the call returns what it reads back from the file it wrote.
CReturnReread(p) ==
    LET q == procs[p]
        buf == ToToml(GoodPrefix(q.dflt))
    IN  /\ q.pc = "write"
        /\ Representable(q.dflt) => q.off = Len(buf)
        /\ procs' = [procs EXCEPT ![p] =
              IF Representable(q.dflt)
              THEN Returned(q, deser(files, q.ns, q.name, "toml"))
              ELSE Returned(q, Err("FailedToSerializeDefaultConfig"))]
        /\ UNCHANGED <<rootKnown, writable, dirs, files, last, prev>>

\* Lines 85-87: to_writer returns; the call returns the default, or the
\* serializer's error for a value TOML cannot express.
CReturn(p) ==
    LET q == procs[p]
        buf == ToToml(GoodPrefix(q.dflt))
    IN  /\ q.pc = "write"
        /\ Representable(q.dflt) => q.off = Len(buf)
        /\ procs' = [procs EXCEPT ![p] =
              IF Representable(q.dflt)
              THEN Returned(q, Ok(q.dflt))
              ELSE Returned(q, Err("FailedToSerializeDefaultConfig"))]
        /\ UNCHANGED <<rootKnown, writable, dirs, files, last, prev>>

NextConc ==
    \/ \E p \in Procs, ns \in Namespaces, name \in Names : CLoad(p, ns, name)
    \/ \E p \in Procs, ns \in Namespaces, name \in Names, v \in Values :
            CLoadOrDefault(p, ns, name, v)
    \/ \E p \in Procs : CDeser(p)
    \/ \E p \in Procs : CMkdir(p)
    \/ \E p \in Procs : CCreate(p)
    \/ \E p \in Procs : CWrite(p)
    \/ \E p \in Procs : CReturn(p)

SpecConc == InitConc /\ [][NextConc]_vars

\* --------------------------------------------------- claims under SpecConc
\* Caller p takes the file-creation step (lines 82-84) in this transition.
CreateStep(p) == procs[p].pc = "create" /\ procs'[p].pc # "create"

\* C7 as stated: when ns/name.toml already exists at the file-creation
\* step of the default-writing path, the step fails with
\* FailedToCreateDefaultConfigFile instead of opening the existing file.
C7_CreateFailsOnExisting ==
    [][\A p \in Procs :
        (CreateStep(p) /\ exists(files, procs[p].ns, procs[p].name, "toml"))
        => /\ procs'[p].pc = "done"
           /\ procs'[p].res = Err("FailedToCreateDefaultConfigFile")
           /\ files' = files]_vars

\* C7 amended: when ns/name.toml already exists at the file-creation step
\* and the user may write it, the step succeeds: it opens the existing file,
\* truncates it to empty, and the call goes on to serialize its default.
C7_CreateTruncatesExisting ==
    [][\A p \in Procs :
        (/\ CreateStep(p)
         /\ writable
         /\ files[TomlPath(procs[p])].st = "file")
        => /\ procs'[p].pc = "write"
           /\ procs'[p].off = 0
           /\ files' = [files EXCEPT ![TomlPath(procs[p])] = File(<<>>)]]_vars

C7_Witness ==
    \E p, q \in Procs :
        /\ p # q /\ SameTarget(procs[p], procs[q])
        /\ procs[p].pc = "write" /\ procs[p].off = 0
        /\ procs[q].pc = "write" /\ procs[q].off > 0
        /\ files[TomlPath(procs[p])] = File(<<>>)

\* Callers p and q both ran load_or_default on one (namespace, name), both
\* probes found no file, and both calls returned.
BothDefaulted(p, q) ==
    /\ p # q /\ SameTarget(procs[p], procs[q])
    /\ \A r \in {p, q} :
          /\ procs[r].op = "lod" /\ procs[r].probe = "none"
          /\ procs[r].pc = "done"
          /\ Representable(procs[r].dflt)

\* C9: two load_or_default calls on one (namespace, name) are not
\* coordinated: when both probes find no file (and the tree is writable)
\* both calls write and each returns its own default, so with different
\* defaults at least one caller holds a value that a following load does
\* not read from disk.
C9_Uncoordinated ==
    \A p, q \in Procs :
        (BothDefaulted(p, q) /\ writable)
        => /\ procs[p].res = Ok(procs[p].dflt)
           /\ procs[q].res = Ok(procs[q].dflt)
           /\ procs[p].dflt # procs[q].dflt
                => \E r \in {p, q} :
                      load(files, procs[r].ns, procs[r].name) # procs[r].res

C9_Witness ==
    \E p, q \in Procs :
        /\ BothDefaulted(p, q) /\ writable
        /\ procs[p].dflt # <<>> /\ procs[q].dflt # <<>>
        /\ procs[p].res = Ok(procs[p].dflt)
        /\ procs[q].res = Ok(procs[q].dflt)
        /\ load(files, procs[p].ns, procs[p].name) = procs[q].res
        /\ load(files, procs[p].ns, procs[p].name) # procs[p].res

\* C10: name.toml is visible to existence probes from the creation step on,
\* before serialization has completed: while a load_or_default is writing
\* its default, a probe of the same (namespace, name) selects name.toml, so
\* a concurrent load reads whatever has reached the file so far.
C10_VisibleWhileWriting ==
    \A p \in Procs :
        procs[p].pc = "write"
        => /\ find_config_file(files, procs[p].ns, procs[p].name) = "toml"
           /\ files[TomlPath(procs[p])].st = "file"

C10_Witness ==
    \E w, r \in Procs :
        /\ procs[w].op = "lod" /\ procs[w].pc = "write"
        /\ Representable(procs[w].dflt)
        /\ procs[r].op = "load" /\ procs[r].pc = "done"
        /\ SameTarget(procs[w], procs[r])
        /\ procs[r].probe = "toml"
        /\ procs[r].res = Err("FailedToDeserializeConfigFile")

====
